---- MODULE Spec2Model ----
(***************************************************************************)
(* Model of scripts/table_all_reml.py: the filename decoder                *)
(* (parse_filename), the report parser (parse_reml_file) and the driver    *)
(* (main) that accumulates a summary table and a detail table and renders  *)
(* a two-sheet workbook.                                                   *)
(*                                                                         *)
(* Python strings are sequences of one-character strings.  Python values   *)
(* that may be None are tagged tuples: <<"None">>, <<"str", chars>>,       *)
(* <<"float", num, scale>> (the number num / 10^scale, normalised) and     *)
(* <<"nan">> (the NaN pandas puts in place of None in a float column).     *)
(***************************************************************************)
EXTENDS Integers, Sequences, FiniteSets, TLC

VARIABLES
    \* ---- parse_filename, run on its own (SpecFilename)
    fn_pc, fn_input, fn_result,
    \* ---- parse_reml_file, run on its own (SpecParse)
    pr_pc, pr_text, pr_lines, pr_result, pr_start, pr_i,
    \* ---- main (Spec)
    pc, fs, libs, out_file, out_writes, reml_files, sorted_files, file_idx,
    summary_data_dict, detailed_data, detail_src, all_types, ws_summary,
    merged, ws_detailed, wb, printed, opened

fn_vars == <<fn_pc, fn_input, fn_result>>
pr_vars == <<pr_pc, pr_text, pr_lines, pr_result, pr_start, pr_i>>
main_vars == <<pc, fs, libs, out_file, out_writes, reml_files, sorted_files,
               file_idx, summary_data_dict, detailed_data, detail_src,
               all_types, ws_summary, merged, ws_detailed, wb, printed, opened>>
vars == <<fn_vars, pr_vars, main_vars>>

(***************************************************************************)
(* Bounds of the model.                                                    *)
(***************************************************************************)
\* number of pieces a generated file name is concatenated from
MaxPieces == 5
\* number of value tokens on a generated component line
MaxVals == 6
\* number of lines of a generated report made of context lines
MaxLines == 3
\* number of files matched by the pattern
MaxFiles == 2

(***************************************************************************)
(* Strings.                                                                *)
(***************************************************************************)
S_reml == <<".", "r", "e", "m", "l">>
S_UNKNOWN == <<"U", "N", "K", "N", "O", "W", "N">>
S_NA == <<"N", "A">>
S_Converged == <<"C", "o", "n", "v", "e", "r", "g", "e", "d">>
S_Component == <<"C", "o", "m", "p", "o", "n", "e", "n", "t">>
S_Her_K1 == <<"H", "e", "r", "_", "K", "1">>
S_Her_K2 == <<"H", "e", "r", "_", "K", "2">>
S_Her_K3 == <<"H", "e", "r", "_", "K", "3">>
S_Her_All == <<"H", "e", "r", "_", "A", "l", "l">>

\* code point of a character (the characters the model's inputs use)
Ord(c) ==
    CASE c = "\t" -> 9  [] c = " " -> 32 [] c = "+" -> 43 [] c = "-" -> 45
      [] c = "." -> 46  [] c = "/" -> 47
      [] c = "0" -> 48  [] c = "1" -> 49 [] c = "2" -> 50 [] c = "3" -> 51
      [] c = "4" -> 52  [] c = "5" -> 53 [] c = "6" -> 54 [] c = "7" -> 55
      [] c = "8" -> 56  [] c = "9" -> 57
      [] c = "A" -> 65  [] c = "B" -> 66 [] c = "C" -> 67 [] c = "E" -> 69
      [] c = "H" -> 72  [] c = "K" -> 75 [] c = "N" -> 78 [] c = "O" -> 79
      [] c = "S" -> 83  [] c = "U" -> 85 [] c = "W" -> 87 [] c = "X" -> 88
      [] c = "Y" -> 89  [] c = "Z" -> 90 [] c = "_" -> 95
      [] c = "a" -> 97  [] c = "b" -> 98 [] c = "d" -> 100 [] c = "e" -> 101
      [] c = "g" -> 103 [] c = "l" -> 108 [] c = "m" -> 109 [] c = "n" -> 110
      [] c = "o" -> 111 [] c = "p" -> 112 [] c = "r" -> 114 [] c = "t" -> 116
      [] c = "v" -> 118 [] c = "x" -> 120

\* Python's < on str: lexicographic by code point, a proper prefix is smaller
RECURSIVE StrLess(_, _)
StrLess(a, b) ==
    IF b = <<>> THEN FALSE
    ELSE IF a = <<>> THEN TRUE
    ELSE IF Head(a) = Head(b) THEN StrLess(Tail(a), Tail(b))
    ELSE Ord(Head(a)) < Ord(Head(b))

\* str.startswith
StartsWith(s, p) == Len(s) >= Len(p) /\ SubSeq(s, 1, Len(p)) = p

\* str.rfind of a one-character string: the last index of c, 0 when absent
\* (Python's -1 shifted to the 1-based indices of a sequence)
RFind(s, c) ==
    IF \E i \in 1..Len(s) : s[i] = c
    THEN CHOOSE i \in 1..Len(s) : s[i] = c /\ \A j \in (i+1)..Len(s) : s[j] # c
    ELSE 0

\* str.replace(old, ''): every non-overlapping occurrence of old, scanning
\* from the left, is removed
RECURSIVE ReplaceWithEmpty(_, _)
ReplaceWithEmpty(s, old) ==
    IF Len(s) < Len(old) THEN s
    ELSE IF StartsWith(s, old)
         THEN ReplaceWithEmpty(SubSeq(s, Len(old) + 1, Len(s)), old)
         ELSE <<Head(s)>> \o ReplaceWithEmpty(Tail(s), old)

\* os.path.basename (posix): what follows the last '/'
basename(p) == SubSeq(p, RFind(p, "/") + 1, Len(p))

\* str.rsplit('.', 1): split at the last '.', one part when there is none
RSplitDot(s) ==
    LET i == RFind(s, ".")
    IN IF i = 0 THEN <<s>>
       ELSE <<SubSeq(s, 1, i - 1), SubSeq(s, i + 1, Len(s))>>

\* re.match(r'^(.+)\.([^.]+)$', s): the groups, or <<>> when there is no match
ReMatchPhenoType(s) ==
    LET i == RFind(s, ".")
    IN IF i > 1 /\ i < Len(s)
       THEN <<SubSeq(s, 1, i - 1), SubSeq(s, i + 1, Len(s))>>
       ELSE <<>>

(***************************************************************************)
(* parse_filename                                                          *)
(***************************************************************************)
\* name_without_ext = basename.replace('.reml', '')
StripExt(bn) == ReplaceWithEmpty(bn, S_reml)

parse_filename(filename) ==
    LET name_without_ext == StripExt(basename(filename))
        parts == RSplitDot(name_without_ext)
    IN IF Len(parts) = 2 THEN <<parts[1], parts[2]>>
       ELSE LET match == ReMatchPhenoType(name_without_ext)
            IN IF match # <<>> THEN match
               ELSE <<name_without_ext, S_UNKNOWN>>

(***************************************************************************)
(* Values.                                                                 *)
(***************************************************************************)
NoneV == <<"None">>
NaNV == <<"nan">>
Str(s) == <<"str", s>>
Float(num, scale) == <<"float", num, scale>>
ValueError == <<"ValueError">>

\* str.isspace for one character
IsSpace(c) == c \in {" ", "\t", "\n"}

\* file.readlines(): the text cut after every '\n'; a last line without '\n'
\* is a line too
RECURSIVE readlines(_)
readlines(text) ==
    IF text = <<>> THEN <<>>
    ELSE IF \E i \in 1..Len(text) : text[i] = "\n"
         THEN LET i == CHOOSE k \in 1..Len(text) :
                           text[k] = "\n" /\ \A j \in 1..(k-1) : text[j] # "\n"
              IN <<SubSeq(text, 1, i)>> \o readlines(SubSeq(text, i + 1, Len(text)))
         ELSE <<text>>

\* str.strip(): leading and trailing whitespace removed
RECURSIVE LStrip(_)
LStrip(s) == IF s # <<>> /\ IsSpace(Head(s)) THEN LStrip(Tail(s)) ELSE s
RECURSIVE RStrip(_)
RStrip(s) ==
    IF s # <<>> /\ IsSpace(s[Len(s)]) THEN RStrip(SubSeq(s, 1, Len(s) - 1)) ELSE s
Strip(s) == RStrip(LStrip(s))

\* str.split(): the maximal runs of non-whitespace characters, in order
RECURSIVE Split(_)
Split(s) ==
    LET t == LStrip(s)
    IN IF t = <<>> THEN <<>>
       ELSE LET n == IF \E i \in 1..Len(t) : IsSpace(t[i])
                     THEN (CHOOSE i \in 1..Len(t) :
                              IsSpace(t[i]) /\ \A j \in 1..(i-1) : ~IsSpace(t[j])) - 1
                     ELSE Len(t)
            IN <<SubSeq(t, 1, n)>> \o Split(SubSeq(t, n + 1, Len(t)))

IsDigit(c) == c \in {"0", "1", "2", "3", "4", "5", "6", "7", "8", "9"}
DigitVal(c) == Ord(c) - 48

RECURSIVE DigitsToInt(_)
DigitsToInt(ds) ==
    IF ds = <<>> THEN 0
    ELSE 10 * DigitsToInt(SubSeq(ds, 1, Len(ds) - 1)) + DigitVal(ds[Len(ds)])

\* num / 10^scale without trailing zeros in the fraction
RECURSIVE Normalise(_, _)
Normalise(num, scale) ==
    IF num = 0 THEN Float(0, 0)
    ELSE IF scale > 0 /\ num % 10 = 0 THEN Normalise(num \div 10, scale - 1)
    ELSE Float(num, scale)

\* float(val) for a token without whitespace: an optional sign, then digits
\* with at most one '.', at least one digit; anything else raises ValueError.
\* (Exponents, '_' between digits and the words inf/nan are forms of float()
\* that the tokens of the model never take.)
ParseFloat(tok) ==
    LET signed == tok # <<>> /\ Head(tok) \in {"+", "-"}
        body == IF signed THEN Tail(tok) ELSE tok
        dots == {i \in 1..Len(body) : body[i] = "."}
        ok == /\ \A i \in 1..Len(body) : IsDigit(body[i]) \/ body[i] = "."
              /\ Cardinality(dots) <= 1
              /\ \E i \in 1..Len(body) : IsDigit(body[i])
        d == IF dots = {} THEN Len(body) + 1 ELSE CHOOSE i \in dots : TRUE
        digits == SubSeq(body, 1, d - 1) \o SubSeq(body, d + 1, Len(body))
        scale == IF dots = {} THEN 0 ELSE Len(body) - d
        mag == DigitsToInt(digits)
    IN IF ~ok THEN ValueError
       ELSE Normalise(IF signed /\ Head(tok) = "-" THEN 0 - mag ELSE mag, scale)

(***************************************************************************)
(* parse_reml_file                                                         *)
(***************************************************************************)
EmptyResult ==
    [converged |-> NoneV, her_k1 |-> NoneV, her_k2 |-> NoneV,
     her_k3 |-> NoneV, her_all |-> NoneV]

\* a variant of the loop below without its break: every line that starts with
\* 'Converged' and has two tokens assigns, so the last of them decides
RECURSIVE FindConvergedNoBreak(_)
FindConvergedNoBreak(lines) ==
    IF lines = <<>> THEN NoneV
    ELSE LET rest == FindConvergedNoBreak(Tail(lines))
             parts == Split(Strip(Head(lines)))
         IN IF rest # NoneV THEN rest
            ELSE IF StartsWith(Head(lines), S_Converged) /\ Len(parts) >= 2
                 THEN Str(parts[2]) ELSE NoneV

\* lines 56-62, the loop "Find Converged status": the first line that starts
\* with 'Converged' decides, and the loop breaks there
RECURSIVE FindConverged(_)
FindConverged(lines) ==
    IF lines = <<>> THEN NoneV
    ELSE IF StartsWith(Head(lines), S_Converged)
         THEN LET parts == Split(Strip(Head(lines)))
              IN IF Len(parts) >= 2 THEN Str(parts[2]) ELSE NoneV
         ELSE FindConverged(Tail(lines))

\* the loop "Find Component header line": the 1-based index of the first line
\* that starts with 'Component', 0 for None
FindComponentStart(lines) ==
    IF \E i \in 1..Len(lines) : StartsWith(lines[i], S_Component)
    THEN CHOOSE i \in 1..Len(lines) :
             /\ StartsWith(lines[i], S_Component)
             /\ \A j \in 1..(i-1) : ~StartsWith(lines[j], S_Component)
    ELSE 0

\* one value token: 'NA' and tokens float() rejects give None
ParseValue(val) ==
    IF val = S_NA THEN NoneV
    ELSE IF ParseFloat(val) = ValueError THEN NoneV ELSE ParseFloat(val)

\* a variant that stops converting at the first token that has no value
ParsedValuesStopAtMissing(values) ==
    [j \in 1..5 |->
        IF j <= Len(values) /\ \A h \in 1..j : ParseValue(values[h]) # NoneV
        THEN ParseValue(values[j]) ELSE NoneV]

\* parsed_values: values[:5] converted, then padded with None to 5 entries
ParsedValues(values) ==
    [j \in 1..5 |-> IF j <= Len(values) THEN ParseValue(values[j]) ELSE NoneV]

\* the body of the loop "Parse Her_* lines" for one line
ParseComponentLine(result, rawline) ==
    LET line == Strip(rawline)
        parts == Split(line)
    IN IF line = <<>> THEN result
       ELSE IF Len(parts) < 2 THEN result
       ELSE LET component == parts[1]
                parsed_values == ParsedValues(Tail(parts))
            IN IF component = S_Her_K1 THEN [result EXCEPT !.her_k1 = parsed_values]
               ELSE IF component = S_Her_K2 THEN [result EXCEPT !.her_k2 = parsed_values]
               ELSE IF component = S_Her_K3 THEN [result EXCEPT !.her_k3 = parsed_values]
               ELSE IF component = S_Her_All THEN [result EXCEPT !.her_all = parsed_values]
               ELSE result

RECURSIVE ParseRows(_, _, _)
ParseRows(result, lines, i) ==
    IF i > Len(lines) THEN result
    ELSE ParseRows(ParseComponentLine(result, lines[i]), lines, i + 1)

parse_reml_file(text) ==
    LET lines == readlines(text)
        result == [EmptyResult EXCEPT !.converged = FindConverged(lines)]
        component_start_idx == FindComponentStart(lines)
    IN IF component_start_idx = 0 THEN result
       ELSE ParseRows(result, lines, component_start_idx + 1)

(***************************************************************************)
(* Idle values: each specification moves its own variables and leaves the  *)
(* variables of the other two at these values.                             *)
(***************************************************************************)
FnIdle == fn_pc = "idle" /\ fn_input = <<>> /\ fn_result = <<>>
PrIdle ==
    /\ pr_pc = "idle" /\ pr_text = <<>> /\ pr_lines = <<>>
    /\ pr_result = EmptyResult /\ pr_start = 0 /\ pr_i = 0
MainIdle ==
    /\ pc = "idle" /\ fs = <<>> /\ libs = FALSE /\ out_file = NoneV
    /\ out_writes = 0 /\ reml_files = {} /\ sorted_files = <<>>
    /\ file_idx = 0 /\ summary_data_dict = <<>> /\ detailed_data = <<>>
    /\ detail_src = <<>> /\ all_types = <<>> /\ ws_summary = <<>>
    /\ merged = {} /\ ws_detailed = <<>> /\ wb = NoneV /\ printed = <<>>
    /\ opened = <<>>

(***************************************************************************)
(* SpecFilename: parse_filename applied to generated paths.                *)
(***************************************************************************)
NamePieces == {<<"A">>, <<"A", ".">>, <<".">>, <<"X">>, S_reml, <<"d", "/">>}

RECURSIVE Concat(_)
Concat(ss) == IF ss = <<>> THEN <<>> ELSE Head(ss) \o Concat(Tail(ss))

\* the paths made of at most MaxPieces pieces
Paths ==
    {Concat(ps) : ps \in UNION {[1..n -> NamePieces] : n \in 0..MaxPieces}}

FnInit == fn_pc = "call" /\ fn_input \in Paths /\ fn_result = <<>>
         /\ PrIdle /\ MainIdle

FnParse ==
    /\ fn_pc = "call"
    /\ fn_result' = parse_filename(fn_input)
    /\ fn_pc' = "returned"
    /\ UNCHANGED <<fn_input, pr_vars, main_vars>>

FnNext == FnParse
SpecFilename == FnInit /\ [][FnNext]_vars

(***************************************************************************)
(* SpecParse: parse_reml_file run loop by loop on generated reports.       *)
(***************************************************************************)
NL == <<"\n">>
SP == <<" ">>
S_YES == <<"Y", "E", "S">>
S_NO == <<"N", "O">>
S_05 == <<"0", ".", "5">>
S_x == <<"x">>
S_Her_K4 == <<"H", "e", "r", "_", "K", "4">>

\* lines of a report (without the line end) that the generated reports mix
ContextLines ==
    { S_Converged \o SP \o S_YES,
      S_Converged,
      SP \o S_Converged \o SP \o S_NO,
      S_Converged \o <<"X">> \o SP \o S_NO \o SP \o S_YES,
      S_Component \o SP \o <<"H", "e", "r">>,
      <<>>,
      S_Her_K1 \o SP \o S_05 \o SP \o S_NA,
      S_Her_K1,
      S_Her_All \o <<"\t">> \o <<"-", "3">> \o SP \o SP \o <<".", "5">> \o SP }

RECURSIVE JoinLines(_)
JoinLines(ls) == IF ls = <<>> THEN <<>> ELSE Head(ls) \o NL \o JoinLines(Tail(ls))

\* reports of at most MaxLines context lines, the last line with or without
\* its line end
ContextReports ==
    LET seqs == UNION {[1..n -> ContextLines] : n \in 0..MaxLines}
    IN {JoinLines(ls) : ls \in seqs}
       \cup {RStrip(JoinLines(ls)) : ls \in seqs}

ValueTokens == {S_NA, S_05, S_x}
Labels == {S_Her_K1, S_Her_K2, S_Her_K3, S_Her_All, S_Her_K4}

RECURSIVE JoinTokens(_)
JoinTokens(ts) == IF ts = <<>> THEN <<>> ELSE SP \o Head(ts) \o JoinTokens(Tail(ts))

\* a header line followed by one component line of at most MaxVals value
\* tokens, with or without leading whitespace
ComponentReports ==
    {JoinLines(<<S_Component, lead \o label \o JoinTokens(ts)>>) :
        lead \in {<<>>, SP}, label \in Labels,
        ts \in UNION {[1..k -> ValueTokens] : k \in 0..MaxVals}}

ParseInputs == ContextReports \cup ComponentReports

PrInit ==
    /\ pr_pc = "open" /\ pr_text \in ParseInputs /\ pr_lines = <<>>
    /\ pr_result = EmptyResult /\ pr_start = 0 /\ pr_i = 0
    /\ FnIdle /\ MainIdle

\* lines 53-54
PrReadLines ==
    /\ pr_pc = "open"
    /\ pr_lines' = readlines(pr_text)
    /\ pr_pc' = "converged"
    /\ UNCHANGED <<pr_text, pr_result, pr_start, pr_i, fn_vars, main_vars>>

\* lines 56-62
PrFindConverged ==
    /\ pr_pc = "converged"
    /\ pr_result' = [pr_result EXCEPT !.converged = FindConverged(pr_lines)]
    /\ pr_pc' = "header"
    /\ UNCHANGED <<pr_text, pr_lines, pr_start, pr_i, fn_vars, main_vars>>

\* lines 64-72
PrFindHeader ==
    /\ pr_pc = "header"
    /\ pr_start' = FindComponentStart(pr_lines)
    /\ IF pr_start' = 0
       THEN pr_pc' = "returned" /\ pr_i' = pr_i
       ELSE pr_pc' = "rows" /\ pr_i' = pr_start' + 1
    /\ UNCHANGED <<pr_text, pr_lines, pr_result, fn_vars, main_vars>>

\* lines 75-112, one iteration
PrParseLine ==
    /\ pr_pc = "rows" /\ pr_i <= Len(pr_lines)
    /\ pr_result' = ParseComponentLine(pr_result, pr_lines[pr_i])
    /\ pr_i' = pr_i + 1
    /\ UNCHANGED <<pr_pc, pr_text, pr_lines, pr_start, fn_vars, main_vars>>

\* line 114
PrReturn ==
    /\ pr_pc = "rows" /\ pr_i > Len(pr_lines)
    /\ pr_pc' = "returned"
    /\ UNCHANGED <<pr_text, pr_lines, pr_result, pr_start, pr_i, fn_vars, main_vars>>

PrNext == PrReadLines \/ PrFindConverged \/ PrFindHeader \/ PrParseLine \/ PrReturn
SpecParse == PrInit /\ [][PrNext]_vars

\* the loop-by-loop run returns what the function returns
PrAgrees == pr_pc = "returned" => pr_result = parse_reml_file(pr_text)

(***************************************************************************)
(* main: the tables.                                                       *)
(***************************************************************************)
S_Phenotype == <<"P", "h", "e", "n", "o", "t", "y", "p", "e">>
S_Type == <<"T", "y", "p", "e">>
S_Heritability == <<"H", "e", "r", "i", "t", "a", "b", "i", "l", "i", "t", "y">>
S_SE == <<"S", "E">>
S_Size == <<"S", "i", "z", "e">>
S_Mega_Intensity == <<"M", "e", "g", "a", "_", "I", "n", "t", "e", "n", "s", "i", "t", "y">>
S_SE_2 == <<"S", "E", "_", "2">>
S_Heritability_Summary == <<"H", "e", "r", "i", "t", "a", "b", "i", "l", "i", "t", "y", " ", "S", "u", "m", "m", "a", "r", "y">>
S_Detailed_Information == <<"D", "e", "t", "a", "i", "l", "e", "d", " ", "I", "n", "f", "o", "r", "m", "a", "t", "i", "o", "n">>

\* sorted() of a set of strings
RECURSIVE Sorted(_)
Sorted(S) ==
    IF S = {} THEN <<>>
    ELSE LET m == CHOOSE x \in S : \A y \in S \ {x} : StrLess(x, y)
         IN <<m>> \o Sorted(S \ {m})

\* parsed['her_k1'][0] if parsed['her_k1'] and parsed['her_k1'][0] is not None
\* else None
FirstOrNone(component_data) ==
    IF component_data # NoneV /\ Len(component_data) > 0
       /\ component_data[1] # NoneV
    THEN component_data[1] ELSE NoneV

\* the record of lines 155-161
SummaryRecord(parsed) ==
    [converged |-> parsed.converged,
     her_k1 |-> FirstOrNone(parsed.her_k1),
     her_k2 |-> FirstOrNone(parsed.her_k2),
     her_k3 |-> FirstOrNone(parsed.her_k3),
     her_all |-> FirstOrNone(parsed.her_all)]

\* d[k] = v on a dict held as a function
DictSet(d, k, v) == [x \in DOMAIN d \cup {k} |-> IF x = k THEN v ELSE d[x]]

\* a variant that keeps the entry a (phenotype, type) pair already has
UpdateSummaryKeepFirst(summary, phenotype, type_val, parsed) ==
    LET inner == IF phenotype \in DOMAIN summary THEN summary[phenotype] ELSE <<>>
    IN IF type_val \in DOMAIN inner THEN summary
       ELSE DictSet(summary, phenotype, DictSet(inner, type_val, SummaryRecord(parsed)))

\* lines 152-161: summary_data_dict[phenotype][type_val] = {...}
UpdateSummary(summary, phenotype, type_val, parsed) ==
    LET inner == IF phenotype \in DOMAIN summary THEN summary[phenotype] ELSE <<>>
    IN DictSet(summary, phenotype, DictSet(inner, type_val, SummaryRecord(parsed)))

\* lines 164-169: the components list of one file
ComponentsOf(parsed) ==
    << <<S_Her_K1, parsed.her_k1>>, <<S_Her_K2, parsed.her_k2>>,
       <<S_Her_K3, parsed.her_k3>>, <<S_Her_All, parsed.her_all>> >>

\* lines 173-183
DetailedRow(phenotype, type_val, component_name, converged, component_data) ==
    [Phenotype |-> Str(phenotype), Type |-> Str(type_val),
     Component |-> Str(component_name), Converged |-> converged,
     Heritability |-> component_data[1], SE |-> component_data[2],
     Size |-> component_data[3], Mega_Intensity |-> component_data[4],
     SE_2 |-> component_data[5]]

\* a variant whose components list starts with Her_All
DetailRowsAllFirst(phenotype, type_val, parsed) ==
    LET cs == ComponentsOf(parsed)
        perm == <<cs[4], cs[1], cs[2], cs[3]>>
        present == SelectSeq(perm, LAMBDA c : c[2] # NoneV)
    IN [i \in 1..Len(present) |->
          DetailedRow(phenotype, type_val, present[i][1], parsed.converged, present[i][2])]

\* lines 171-184: the rows one file appends, in the order of the components list
DetailRows(phenotype, type_val, parsed) ==
    LET present == SelectSeq(ComponentsOf(parsed), LAMBDA c : c[2] # NoneV)
    IN [i \in 1..Len(present) |->
          DetailedRow(phenotype, type_val, present[i][1], parsed.converged, present[i][2])]

\* the components of the rows above, kept beside detailed_data to tell which
\* file and component a row came from
DetailSources(filepath, parsed) ==
    LET present == SelectSeq(ComponentsOf(parsed), LAMBDA c : c[2] # NoneV)
    IN [i \in 1..Len(present) |-> <<filepath, present[i][1]>>]

(***************************************************************************)
(* main: the worksheets.  A sheet is a function from <<row, column>> to a  *)
(* cell [value, bold, align].                                              *)
(***************************************************************************)
NewCell(v) == [value |-> v, bold |-> FALSE, align |-> "general"]

\* ws.cell(row, column, value): the cell is created when the sheet has none
\* there, and a value is assigned unless it is None
SetCell(ws, r, c, v) ==
    [rc \in DOMAIN ws \cup {<<r, c>>} |->
        IF rc = <<r, c>>
        THEN IF rc \in DOMAIN ws
             THEN (IF v = NoneV THEN ws[rc] ELSE [ws[rc] EXCEPT !.value = v])
             ELSE NewCell(v)
        ELSE ws[rc]]

\* cell.font = Font(bold=True), cell.alignment = Alignment(...)
SetStyle(ws, r, c, b, a) ==
    [ws EXCEPT ![<<r, c>>] = [@ EXCEPT !.bold = b, !.align = a]]

col_headers == <<S_Her_K1, S_Her_K2, S_Her_K3, S_Her_All, S_Converged>>

\* a variant that collects the types from the detail rows
AllTypesFromDetail(summary, detail) ==
    Sorted({detail[i].Type[2] : i \in 1..Len(detail)})

\* lines 195-199: all_types = sorted(set of the keys of every inner dict);
\* detailed_data is in scope there and is not read
AllTypes(summary, detail) ==
    Sorted(UNION {DOMAIN summary[p] : p \in DOMAIN summary})

\* lines 216-223: header row 1, one merged group of 5 columns per type
RECURSIVE WriteTypeHeaders(_, _, _, _)
WriteTypeHeaders(sheet, types, i, col_idx) ==
    IF i > Len(types) THEN sheet
    ELSE LET ws1 == SetCell(sheet.ws, 1, col_idx, Str(types[i]))
             ws2 == SetStyle(ws1, 1, col_idx, TRUE, "center_center")
         IN WriteTypeHeaders(
                [ws |-> ws2,
                 merged |-> sheet.merged \cup {<<1, col_idx, 1, col_idx + 4>>}],
                types, i + 1, col_idx + 5)

\* lines 229-233: the 5 sub-column labels of one type
RECURSIVE WriteSubHeaders(_, _, _)
WriteSubHeaders(ws, h, col_idx) ==
    IF h > Len(col_headers) THEN ws
    ELSE WriteSubHeaders(
             SetStyle(SetCell(ws, 2, col_idx, Str(col_headers[h])),
                      2, col_idx, TRUE, "center"),
             h + 1, col_idx + 1)

\* lines 227-233: header row 2
RECURSIVE WriteHeaderRow2(_, _, _, _)
WriteHeaderRow2(ws, types, i, col_idx) ==
    IF i > Len(types) THEN ws
    ELSE WriteHeaderRow2(WriteSubHeaders(ws, 1, col_idx), types, i + 1,
                         col_idx + Len(col_headers))

\* lines 250-251
RECURSIVE WriteBlank(_, _, _, _)
WriteBlank(ws, row_idx, col_idx, i) ==
    IF i >= 5 THEN ws
    ELSE WriteBlank(SetCell(ws, row_idx, col_idx + i, NoneV), row_idx, col_idx, i + 1)

\* a variant that does not advance to the next group after a missing entry
RECURSIVE WriteGroupsNoSkip(_, _, _, _, _, _)
WriteGroupsNoSkip(ws, entry, types, i, row_idx, col_idx) ==
    IF i > Len(types) THEN ws
    ELSE IF types[i] \in DOMAIN entry
         THEN LET data == entry[types[i]]
                  w1 == SetCell(ws, row_idx, col_idx, data.her_k1)
                  w2 == SetCell(w1, row_idx, col_idx + 1, data.her_k2)
                  w3 == SetCell(w2, row_idx, col_idx + 2, data.her_k3)
                  w4 == SetCell(w3, row_idx, col_idx + 3, data.her_all)
                  w5 == SetCell(w4, row_idx, col_idx + 4, data.converged)
              IN WriteGroupsNoSkip(w5, entry, types, i + 1, row_idx, col_idx + 5)
         ELSE WriteGroupsNoSkip(ws, entry, types, i + 1, row_idx, col_idx)

\* lines 240-252: the groups of one data row
RECURSIVE WriteGroups(_, _, _, _, _, _)
WriteGroups(ws, entry, types, i, row_idx, col_idx) ==
    IF i > Len(types) THEN ws
    ELSE IF types[i] \in DOMAIN entry
         THEN LET data == entry[types[i]]
                  w1 == SetCell(ws, row_idx, col_idx, data.her_k1)
                  w2 == SetCell(w1, row_idx, col_idx + 1, data.her_k2)
                  w3 == SetCell(w2, row_idx, col_idx + 2, data.her_k3)
                  w4 == SetCell(w3, row_idx, col_idx + 3, data.her_all)
                  w5 == SetCell(w4, row_idx, col_idx + 4, data.converged)
              IN WriteGroups(w5, entry, types, i + 1, row_idx, col_idx + 5)
         ELSE WriteGroups(WriteBlank(ws, row_idx, col_idx, 0), entry, types,
                          i + 1, row_idx, col_idx + 5)

\* lines 236-253: one data row per phenotype, in sorted order
RECURSIVE WriteDataRows(_, _, _, _, _, _)
WriteDataRows(ws, summary, phenotypes, types, k, row_idx) ==
    IF k > Len(phenotypes) THEN ws
    ELSE WriteDataRows(
             WriteGroups(SetCell(ws, row_idx, 1, Str(phenotypes[k])),
                         summary[phenotypes[k]], types, 1, row_idx, 2),
             summary, phenotypes, types, k + 1, row_idx + 1)

\* lines 205-253: the summary sheet
SummarySheet(summary, types) ==
    LET h1 == WriteTypeHeaders(
                  [ws |-> SetCell(<<>>, 1, 1, Str(S_Phenotype)), merged |-> {}],
                  types, 1, 2)
        r2 == SetStyle(SetCell(h1.ws, 2, 1, Str(S_Phenotype)), 2, 1, TRUE, "general")
        h2 == WriteHeaderRow2(r2, types, 1, 2)
    IN [ws |-> WriteDataRows(h2, summary, Sorted(DOMAIN summary), types, 1, 3),
        merged |-> h1.merged]

DetailKeys ==
    <<"Phenotype", "Type", "Component", "Converged", "Heritability", "SE",
      "Size", "Mega_Intensity", "SE_2">>

KeyName(k) ==
    CASE k = "Phenotype" -> S_Phenotype [] k = "Type" -> S_Type
      [] k = "Component" -> S_Component [] k = "Converged" -> S_Converged
      [] k = "Heritability" -> S_Heritability [] k = "SE" -> S_SE
      [] k = "Size" -> S_Size [] k = "Mega_Intensity" -> S_Mega_Intensity
      [] k = "SE_2" -> S_SE_2

\* pd.DataFrame(list of dicts): the columns are the keys of the rows in their
\* order, none for an empty list; a column that holds a float holds NaN where
\* a row has None
DataFrame(rows) ==
    LET columns == IF rows = <<>> THEN <<>> ELSE DetailKeys
        IsFloatCol(k) == \E i \in 1..Len(rows) : rows[i][k][1] = "float"
    IN [columns |-> columns,
        rows |-> [i \in 1..Len(rows) |->
                    [c \in 1..Len(columns) |->
                        IF rows[i][columns[c]] = NoneV /\ IsFloatCol(columns[c])
                        THEN NaNV ELSE rows[i][columns[c]]]]]

\* lines 260-262: the header cells, one per column of the frame
RECURSIVE WriteDetailHeader(_, _, _)
WriteDetailHeader(ws, columns, c_idx) ==
    IF c_idx > Len(columns) THEN ws
    ELSE WriteDetailHeader(
             SetStyle(SetCell(ws, 1, c_idx, Str(KeyName(columns[c_idx]))),
                      1, c_idx, TRUE, "general"),
             columns, c_idx + 1)

RECURSIVE WriteDetailCells(_, _, _, _)
WriteDetailCells(ws, row, r_idx, c_idx) ==
    IF c_idx > Len(row) THEN ws
    ELSE WriteDetailCells(SetCell(ws, r_idx, c_idx, row[c_idx]), row, r_idx, c_idx + 1)

\* lines 265-267: the data rows, from row 2
RECURSIVE WriteDetailRows(_, _, _)
WriteDetailRows(ws, rows, i) ==
    IF i > Len(rows) THEN ws
    ELSE WriteDetailRows(WriteDetailCells(ws, rows[i], i + 1, 1), rows, i + 1)

\* lines 256-267: the detail sheet
DetailSheet(detail) ==
    LET df_detailed == DataFrame(detail)
    IN WriteDetailRows(WriteDetailHeader(<<>>, df_detailed.columns, 1),
                       df_detailed.rows, 1)

(***************************************************************************)
(* Spec: main run on a file system of at most MaxFiles matching files.     *)
(***************************************************************************)
\* 'd/A.X.reml'
Path1 ==
    <<"d", "/", "A", ".", "X", ".", "r", "e", "m", "l">>
\* 'e/A.X.reml'
Path2 ==
    <<"e", "/", "A", ".", "X", ".", "r", "e", "m", "l">>
\* 'd/A.Y.reml'
Path3 ==
    <<"d", "/", "A", ".", "Y", ".", "r", "e", "m", "l">>
\* 'd/B.X.reml'
Path4 ==
    <<"d", "/", "B", ".", "X", ".", "r", "e", "m", "l">>
\* 'd/B.reml'
Path5 ==
    <<"d", "/", "B", ".", "r", "e", "m", "l">>
\* 'Converged YES\nComponent Heritability SE\nHer_K1 0.5 0.1\nHer_All 0.3 NA\n'
Report1 ==
    <<"C", "o", "n", "v", "e", "r", "g", "e", "d", " ", "Y", "E", "S",
      "\n", "C", "o", "m", "p", "o", "n", "e", "n", "t", " ", "H", "e",
      "r", "i", "t", "a", "b", "i", "l", "i", "t", "y", " ", "S", "E",
      "\n", "H", "e", "r", "_", "K", "1", " ", "0", ".", "5", " ", "0",
      ".", "1", "\n", "H", "e", "r", "_", "A", "l", "l", " ", "0", ".",
      "3", " ", "N", "A", "\n">>
\* 'Component Heritability SE\nHer_All NA 0.5\nHer_K2 -3\nConverged NO\n'
Report2 ==
    <<"C", "o", "m", "p", "o", "n", "e", "n", "t", " ", "H", "e", "r",
      "i", "t", "a", "b", "i", "l", "i", "t", "y", " ", "S", "E", "\n",
      "H", "e", "r", "_", "A", "l", "l", " ", "N", "A", " ", "0", ".",
      "5", "\n", "H", "e", "r", "_", "K", "2", " ", "-", "3", "\n", "C",
      "o", "n", "v", "e", "r", "g", "e", "d", " ", "N", "O", "\n">>
\* 'Converged YES\n'
Report3 ==
    <<"C", "o", "n", "v", "e", "r", "g", "e", "d", " ", "Y", "E", "S",
      "\n">>
\* ''
Report4 ==
    <<>>
\* 'Converged\nComponent Heritability SE\nHer_K3 x 0.1\n'
Report5 ==
    <<"C", "o", "n", "v", "e", "r", "g", "e", "d", "\n", "C", "o", "m",
      "p", "o", "n", "e", "n", "t", " ", "H", "e", "r", "i", "t", "a",
      "b", "i", "l", "i", "t", "y", " ", "S", "E", "\n", "H", "e", "r",
      "_", "K", "3", " ", "x", " ", "0", ".", "1", "\n">>

\* a file open() cannot read
Unreadable == <<"OSError">>
\* a file already at the output path, and an output path that cannot be written
OldFile == <<"old file">>
Unwritable == <<"unwritable">>

PathUniverse == {Path1, Path2, Path3, Path4, Path5}
MainContents == {Report1, Report2, Report3, Report4, Report5, Unreadable}

MainInit ==
    /\ pc = "start"
    /\ fs \in UNION {[S -> MainContents] :
                        S \in {T \in SUBSET PathUniverse : Cardinality(T) <= MaxFiles}}
    /\ libs \in BOOLEAN
    /\ out_file \in {NoneV, OldFile, Unwritable}
    /\ out_writes = 0 /\ reml_files = {} /\ sorted_files = <<>> /\ file_idx = 0
    /\ summary_data_dict = <<>> /\ detailed_data = <<>> /\ detail_src = <<>>
    /\ all_types = <<>> /\ ws_summary = <<>> /\ merged = {} /\ ws_detailed = <<>>
    /\ wb = NoneV /\ printed = <<>> /\ opened = <<>>
    /\ FnIdle /\ PrIdle

\* a variant that goes on with an empty list of files
GlobNoReturn ==
    /\ pc = "start"
    /\ reml_files' = DOMAIN fs
    /\ printed' = Append(printed, <<"Found files", Cardinality(reml_files')>>)
    /\ pc' = "loop"
    /\ sorted_files' = Sorted(reml_files')
    /\ file_idx' = 1
    /\ UNCHANGED <<fs, libs, out_file, out_writes, summary_data_dict,
                   detailed_data, detail_src, all_types, ws_summary, merged,
                   ws_detailed, wb, opened, fn_vars, pr_vars>>

\* lines 135-147: the files the pattern matches; none: a warning and return
Glob ==
    /\ pc = "start"
    /\ reml_files' = DOMAIN fs
    /\ IF reml_files' = {}
       THEN /\ printed' = Append(printed, <<"Warning: No files found">>)
            /\ pc' = "done"
            /\ UNCHANGED <<sorted_files, file_idx>>
       ELSE /\ printed' = Append(printed, <<"Found files", Cardinality(reml_files')>>)
            /\ pc' = "loop"
            /\ sorted_files' = Sorted(reml_files')
            /\ file_idx' = 1
    /\ UNCHANGED <<fs, libs, out_file, out_writes, summary_data_dict,
                   detailed_data, detail_src, all_types, ws_summary, merged,
                   ws_detailed, wb, opened, fn_vars, pr_vars>>

\* lines 147-184: one iteration of the loop over sorted(reml_files); open()
\* of a file that cannot be read raises and ends the run
ProcessFile ==
    /\ pc = "loop" /\ file_idx <= Len(sorted_files)
    /\ LET filepath == sorted_files[file_idx]
           name == parse_filename(filepath)
           phenotype == name[1]
           type_val == name[2]
       IN /\ opened' = Append(opened, filepath)
          /\ IF fs[filepath] = Unreadable
             THEN /\ pc' = "raised"
                  /\ UNCHANGED <<file_idx, summary_data_dict, detailed_data, detail_src>>
             ELSE LET parsed == parse_reml_file(fs[filepath])
                  IN /\ summary_data_dict' =
                            UpdateSummary(summary_data_dict, phenotype, type_val, parsed)
                     /\ detailed_data' =
                            detailed_data \o DetailRows(phenotype, type_val, parsed)
                     /\ detail_src' = detail_src \o DetailSources(filepath, parsed)
                     /\ file_idx' = file_idx + 1
                     /\ pc' = "loop"
    /\ UNCHANGED <<fs, libs, out_file, out_writes, reml_files, sorted_files,
                   all_types, ws_summary, merged, ws_detailed, wb, printed,
                   fn_vars, pr_vars>>

\* a variant that goes on to render when the import fails
ImportLibsIgnoreError ==
    /\ pc = "loop" /\ file_idx > Len(sorted_files)
    /\ pc' = "render_summary"
    /\ UNCHANGED <<fs, libs, out_file, out_writes, reml_files, sorted_files,
                   file_idx, summary_data_dict, detailed_data, detail_src,
                   all_types, ws_summary, merged, ws_detailed, wb, printed,
                   opened, fn_vars, pr_vars>>

\* lines 186-193: after the loop, the imports of openpyxl and pandas
ImportLibs ==
    /\ pc = "loop" /\ file_idx > Len(sorted_files)
    /\ IF libs
       THEN pc' = "render_summary" /\ printed' = printed
       ELSE /\ printed' = Append(printed, <<"Error: openpyxl and pandas are required">>)
            /\ pc' = "done"
    /\ UNCHANGED <<fs, libs, out_file, out_writes, reml_files, sorted_files,
                   file_idx, summary_data_dict, detailed_data, detail_src,
                   all_types, ws_summary, merged, ws_detailed, wb, opened,
                   fn_vars, pr_vars>>

\* lines 195-253: all_types, the workbook and its summary sheet
RenderSummary ==
    /\ pc = "render_summary"
    /\ all_types' = AllTypes(summary_data_dict, detailed_data)
    /\ wb' = <<S_Heritability_Summary>>
    /\ LET sheet == SummarySheet(summary_data_dict, all_types')
       IN ws_summary' = sheet.ws /\ merged' = sheet.merged
    /\ pc' = "render_detail"
    /\ UNCHANGED <<fs, libs, out_file, out_writes, reml_files, sorted_files,
                   file_idx, summary_data_dict, detailed_data, detail_src,
                   ws_detailed, printed, opened, fn_vars, pr_vars>>

\* lines 255-267: the detail sheet
RenderDetail ==
    /\ pc = "render_detail"
    /\ wb' = Append(wb, S_Detailed_Information)
    /\ ws_detailed' = DetailSheet(detailed_data)
    /\ pc' = "save"
    /\ UNCHANGED <<fs, libs, out_file, out_writes, reml_files, sorted_files,
                   file_idx, summary_data_dict, detailed_data, detail_src,
                   all_types, ws_summary, merged, printed, opened, fn_vars, pr_vars>>

\* lines 269-274: wb.save(args.output) and the completion summary; saving to
\* a path that cannot be written raises
Save ==
    /\ pc = "save"
    /\ IF out_file = Unwritable
       THEN pc' = "raised" /\ UNCHANGED <<out_file, out_writes, printed>>
       ELSE /\ out_file' =
                  <<[title |-> wb[1], cells |-> ws_summary, merged |-> merged],
                    [title |-> wb[2], cells |-> ws_detailed, merged |-> {}]>>
            /\ out_writes' = out_writes + 1
            /\ printed' = printed \o
                  << <<"Successfully wrote results">>,
                     <<"Summary sheet rows", Cardinality(DOMAIN summary_data_dict)>>,
                     <<"Detailed sheet rows", Len(DataFrame(detailed_data).rows)>> >>
            /\ pc' = "done"
    /\ UNCHANGED <<fs, libs, reml_files, sorted_files, file_idx,
                   summary_data_dict, detailed_data, detail_src, all_types,
                   ws_summary, merged, ws_detailed, wb, opened, fn_vars, pr_vars>>

Next == Glob \/ ProcessFile \/ ImportLibs \/ RenderSummary \/ RenderDetail \/ Save
Init == MainInit
Spec == Init /\ [][Next]_vars

(***************************************************************************)
(* Properties of parse_filename (SpecFilename).                            *)
(***************************************************************************)
HasNoDot(q) == \A j \in 1..Len(q) : q[j] # "."

\* the base name, stated without the decoder's helpers: what follows the
\* last '/' of the path
BaseNameOf(path) ==
    LET slashes == {i \in 1..Len(path) : path[i] = "/"}
        last == IF slashes = {} THEN 0
                ELSE CHOOSE i \in slashes : \A j \in slashes : j <= i
    IN SubSeq(path, last + 1, Len(path))

\* C1: for every path whose base name is P + '.' + Q + '.reml', P non-empty
\* (P may contain '.' and the text '.reml') and Q without '.', parse_filename
\* returns exactly (P, Q): only the trailing extension is stripped and the
\* rest is split at its last '.'.
C1_TrailingExtensionOnly ==
    fn_pc = "returned" =>
        LET bn == BaseNameOf(fn_input)
            n == Len(bn) - Len(S_reml)
        IN \A i \in 2..n :
              ( /\ SubSeq(bn, n + 1, Len(bn)) = S_reml
                /\ bn[i] = "."
                /\ HasNoDot(SubSeq(bn, i + 1, n)) )
              => fn_result = <<SubSeq(bn, 1, i - 1), SubSeq(bn, i + 1, n)>>

(***************************************************************************)
(* Properties of parse_reml_file (SpecParse).                              *)
(***************************************************************************)
RecognisedLabels == {S_Her_K1, S_Her_K2, S_Her_K3, S_Her_All}

StoredUnder(result, label) ==
    CASE label = S_Her_K1 -> result.her_k1
      [] label = S_Her_K2 -> result.her_k2
      [] label = S_Her_K3 -> result.her_k3
      [] label = S_Her_All -> result.her_all

\* the row the claim describes for the value tokens toks: position j holds
\* the number of token j, nothing for 'NA', for a token that is no number and
\* for a position past the last token
ClaimedRow(toks) ==
    [j \in 1..5 |->
        IF j > Len(toks) THEN NoneV
        ELSE IF toks[j] = S_NA \/ ParseFloat(toks[j]) = ValueError THEN NoneV
        ELSE ParseFloat(toks[j])]

\* the step of the rows loop that handles line pr_i
RowStep == pr_pc = "rows" /\ pr_i <= Len(pr_lines) /\ pr_i' = pr_i + 1

\* C9 as claimed: every non-blank line after the header whose first token is
\* a recognised label and that carries k value tokens, k from 0 on, stores
\* the component as the 5-entry row of its first five tokens, padded.
C9_RowStoredForAnyK ==
    [][RowStep =>
         LET parts == Split(pr_lines[pr_i])
         IN (parts # <<>> /\ parts[1] \in RecognisedLabels)
            => StoredUnder(pr_result', parts[1]) = ClaimedRow(Tail(parts))]_vars

\* C9 amended: the same for k >= 1; a line that is only the label (k = 0)
\* is skipped and leaves the result as it was.
C9_RowStoredForKAtLeast1 ==
    [][RowStep =>
         LET parts == Split(pr_lines[pr_i])
         IN (parts # <<>> /\ parts[1] \in RecognisedLabels)
            => IF Len(parts) >= 2
               THEN /\ StoredUnder(pr_result', parts[1]) = ClaimedRow(Tail(parts))
                    /\ \A l \in RecognisedLabels \ {parts[1]} :
                          StoredUnder(pr_result', l) = StoredUnder(pr_result, l)
               ELSE pr_result' = pr_result]_vars

\* the line handled last by the rows loop
LastRowLine == pr_lines[pr_i - 1]

\* C9 witness: a recognised line with 'NA' in position 2 and three value
\* tokens has been stored with positions 2, 4 and 5 absent.
C9_Witness ==
    /\ pr_pc = "rows" /\ pr_start > 0 /\ pr_i > pr_start + 1
    /\ LET parts == Split(LastRowLine)
       IN /\ Len(parts) = 4 /\ parts[1] = S_Her_K2
          /\ parts[3] = S_NA /\ parts[2] = S_05 /\ parts[4] = S_05
          /\ pr_result.her_k2 = <<Float(5, 1), NoneV, Float(5, 1), NoneV, NoneV>>

ConvergedLines == {i \in 1..Len(pr_lines) : StartsWith(pr_lines[i], S_Converged)}

\* C10: the convergence value is the second token of the first line that
\* begins with 'Converged' when that line has two tokens, absent otherwise
\* and absent without such a line; no later line and no 'Component' header
\* changes it.
C10_FirstConvergedLineDecides ==
    pr_pc \in {"header", "rows", "returned"} =>
        IF ConvergedLines = {} THEN pr_result.converged = NoneV
        ELSE LET first == CHOOSE i \in ConvergedLines : \A j \in ConvergedLines : i <= j
                 toks == Split(pr_lines[first])
             IN pr_result.converged =
                    IF Len(toks) >= 2 THEN Str(toks[2]) ELSE NoneV

\* C10 witness: a report without header whose first 'Converged' line has one
\* token and whose later 'Converged' line has a value has been parsed.
C10_Witness ==
    /\ pr_pc = "returned" /\ pr_start = 0
    /\ \E i, j \in ConvergedLines :
          /\ i < j /\ \A h \in ConvergedLines : i <= h
          /\ Len(Split(pr_lines[i])) = 1 /\ Len(Split(pr_lines[j])) >= 2
    /\ pr_result.converged = NoneV

(***************************************************************************)
(* Properties of main (Spec).                                              *)
(***************************************************************************)
\* the loop over the sorted files has run to its end
LoopFinished == pc # "start" /\ file_idx > Len(sorted_files)

PhenotypeOf(f) == parse_filename(f)[1]
CategoryOf(f) == parse_filename(f)[2]
Phenotypes == {PhenotypeOf(f) : f \in reml_files}
Categories == {CategoryOf(f) : f \in reml_files}

\* 0-based position of a string in the sorted order of a set of strings
Rank(x, S) == Cardinality({y \in S : StrLess(y, x)})

FirstValue(row) == IF row = NoneV THEN NoneV ELSE row[1]

\* converged and the first value of each component of a report
Condensed(text) ==
    LET r == parse_reml_file(text)
    IN [converged |-> r.converged, her_k1 |-> FirstValue(r.her_k1),
        her_k2 |-> FirstValue(r.her_k2), her_k3 |-> FirstValue(r.her_k3),
        her_all |-> FirstValue(r.her_all)]

\* C2: after the processing loop the summary entry of each (phenotype,
\* category) pair is the condensed record of the file that sorts last by
\* path among the files decoding to that pair, whole record, and every file
\* has an entry.
C2_LastWriteWins ==
    LoopFinished =>
        /\ \A f \in reml_files :
              /\ PhenotypeOf(f) \in DOMAIN summary_data_dict
              /\ CategoryOf(f) \in DOMAIN summary_data_dict[PhenotypeOf(f)]
        /\ \A p \in DOMAIN summary_data_dict :
              \A t \in DOMAIN summary_data_dict[p] :
                 LET F == {f \in reml_files : parse_filename(f) = <<p, t>>}
                 IN \E last \in F :
                       /\ \A g \in F \ {last} : StrLess(g, last)
                       /\ summary_data_dict[p][t] = Condensed(fs[last])

\* C2 witness: two files of one pair were processed; the earlier has a
\* convergence value and Her_K1, the later has neither, and the entry shows
\* neither.
C2_Witness ==
    /\ LoopFinished
    /\ \E f, g \in reml_files :
          /\ StrLess(f, g) /\ parse_filename(f) = parse_filename(g)
          /\ Condensed(fs[f]).her_k1 # NoneV /\ Condensed(fs[f]).converged # NoneV
          /\ Condensed(fs[g]).her_k1 = NoneV /\ Condensed(fs[g]).converged = NoneV
          /\ \A h \in reml_files : parse_filename(h) = parse_filename(f) => ~StrLess(g, h)
          /\ summary_data_dict[PhenotypeOf(f)][CategoryOf(f)].her_k1 = NoneV
          /\ summary_data_dict[PhenotypeOf(f)][CategoryOf(f)].converged = NoneV

ComponentOrder == <<S_Her_K1, S_Her_K2, S_Her_K3, S_Her_All>>
ComponentIndex(c) == CHOOSE i \in 1..4 : ComponentOrder[i] = c

\* the (file, component) pairs the parser stored, from the parsed reports
StoredPairsOf(parsedOf) ==
    {fc \in reml_files \X RecognisedLabels : StoredUnder(parsedOf[fc[1]], fc[2]) # NoneV}

DetailInOrder ==
    LoopFinished =>
        LET parsedOf == [f \in reml_files |-> parse_reml_file(fs[f])]
            nameOf == [f \in reml_files |-> parse_filename(f)]
            stored == StoredPairsOf(parsedOf)
        IN /\ Len(detailed_data) = Cardinality(stored)
           /\ Len(detail_src) = Len(detailed_data)
           /\ {detail_src[i] : i \in 1..Len(detail_src)} = stored
           /\ \A i, j \in 1..Len(detail_src) :
                 i < j => \/ StrLess(detail_src[i][1], detail_src[j][1])
                          \/ /\ detail_src[i][1] = detail_src[j][1]
                             /\ ComponentIndex(detail_src[i][2])
                                   < ComponentIndex(detail_src[j][2])
           /\ \A i \in 1..Len(detailed_data) :
                 LET f == detail_src[i][1]
                     r == parsedOf[f]
                     row == StoredUnder(r, detail_src[i][2])
                 IN detailed_data[i] =
                       [Phenotype |-> Str(nameOf[f][1]), Type |-> Str(nameOf[f][2]),
                        Component |-> Str(detail_src[i][2]), Converged |-> r.converged,
                        Heritability |-> row[1], SE |-> row[2], Size |-> row[3],
                        Mega_Intensity |-> row[4], SE_2 |-> row[5]]

DetailAppendOnly ==
    /\ Len(detailed_data') >= Len(detailed_data)
    /\ SubSeq(detailed_data', 1, Len(detailed_data)) = detailed_data

\* C3: DetailTable only grows by appending, and after the loop it holds
\* exactly one row per (file, component) pair the parser stored, ordered by
\* sorted file path and within a file in the order Her_K1, Her_K2, Her_K3,
\* Her_All; rows of a file whose summary entry was overwritten are kept.
C3_DetailTable == []DetailInOrder /\ [][DetailAppendOnly]_vars

\* C3 witness: a file whose summary entry a later file overwrote still has
\* its rows in the table, and a file listing Her_All before Her_K2 has its
\* Her_K2 row first.
C3_Witness ==
    /\ LoopFinished
    /\ \E i \in 1..Len(detail_src) : \E g \in reml_files :
          /\ StrLess(detail_src[i][1], g)
          /\ parse_filename(g) = parse_filename(detail_src[i][1])
    /\ \E i \in 1..(Len(detail_src) - 1) :
          /\ fs[detail_src[i][1]] = Report2
          /\ detail_src[i][2] = S_Her_K2 /\ detail_src[i + 1][2] = S_Her_All

\* the summary sheet has been rendered
SummaryRendered == pc \in {"render_detail", "save"} \/ (pc \in {"done", "raised"} /\ wb # NoneV)

CellValue(ws, r, c) == IF <<r, c>> \in DOMAIN ws THEN ws[<<r, c>>].value ELSE NoneV

\* C4: the summary sheet has one data row per distinct phenotype, in sorted
\* order from row 3; the group of category number i (0-based, sorted) is
\* columns 2+5i .. 6+5i and holds Her_K1, Her_K2, Her_K3, Her_All, Converged
\* of that (phenotype, category) entry; a combination without a file is 5
\* blank cells; nothing else is in the data rows.
C4_SummaryGrid ==
    SummaryRendered =>
        /\ {rc[1] : rc \in DOMAIN ws_summary} \ {1, 2}
              = 3..(2 + Cardinality(Phenotypes))
        /\ \A rc \in DOMAIN ws_summary :
              rc[1] >= 3 => rc[2] \in 1..(1 + 5 * Cardinality(Categories))
        /\ \A p \in Phenotypes :
              LET r == 3 + Rank(p, Phenotypes)
              IN /\ CellValue(ws_summary, r, 1) = Str(p)
                 /\ \A t \in Categories :
                       LET c == 2 + 5 * Rank(t, Categories)
                           group == [k \in 0..4 |-> CellValue(ws_summary, r, c + k)]
                       IN IF \E f \in reml_files : parse_filename(f) = <<p, t>>
                          THEN LET e == summary_data_dict[p][t]
                               IN group = [k \in 0..4 |->
                                              <<e.her_k1, e.her_k2, e.her_k3,
                                                e.her_all, e.converged>>[k + 1]]
                          ELSE group = [k \in 0..4 |-> NoneV]

\* C4 witness: two phenotypes and two categories, one combination without a
\* file rendered blank in the first group while the second group of the same
\* row holds a value.
C4_Witness ==
    /\ SummaryRendered
    /\ Cardinality(Phenotypes) = 2 /\ Cardinality(Categories) = 2
    /\ \E r \in {3, 4} :
          /\ \A k \in 2..6 : CellValue(ws_summary, r, k) = NoneV
          /\ \A f \in reml_files :
                CellValue(ws_summary, r, 1) = Str(PhenotypeOf(f))
                   => Rank(CategoryOf(f), Categories) = 1
          /\ CellValue(ws_summary, r, 11) # NoneV

\* C5: the category labels of the merged header groups are exactly the
\* categories parse_filename returned over the processed files, without
\* duplicates, in lexicographic order.
C5_CategoryColumns ==
    SummaryRendered =>
        /\ {all_types[i] : i \in 1..Len(all_types)} = Categories
        /\ \A i, j \in 1..Len(all_types) : i < j => StrLess(all_types[i], all_types[j])
        /\ \A i \in 1..Len(all_types) :
              /\ CellValue(ws_summary, 1, 2 + 5 * (i - 1)) = Str(all_types[i])
              /\ <<1, 2 + 5 * (i - 1), 1, 6 + 5 * (i - 1)>> \in merged
        /\ Cardinality(merged) = Cardinality(Categories)

\* C5 witness: the sentinel category of a file without any component is a
\* header group, before the group of another category.
C5_Witness ==
    /\ SummaryRendered
    /\ Len(all_types) >= 2 /\ all_types[1] = S_UNKNOWN
    /\ \A f \in reml_files :
          CategoryOf(f) = S_UNKNOWN =>
             \A l \in RecognisedLabels : StoredUnder(parse_reml_file(fs[f]), l) = NoneV
    /\ CellValue(ws_summary, 1, 2) = Str(S_UNKNOWN)

\* the detail sheet has been rendered
DetailRendered == pc = "save" \/ (pc \in {"done", "raised"} /\ wb # NoneV)

\* C6: in every run that reaches rendering, whatever the length of
\* DetailTable, row 1 of the detail sheet lists the nine column names in
\* order and one row per DetailTable entry follows.
C6_DetailSheetLayout ==
    DetailRendered =>
        /\ \A c \in 1..Len(DetailKeys) :
              CellValue(ws_detailed, 1, c) = Str(KeyName(DetailKeys[c]))
        /\ {rc[1] : rc \in DOMAIN ws_detailed} = 1..(1 + Len(detailed_data))

ErrorMissingLibs == <<"Error: openpyxl and pandas are required">>
WarningNoFiles == <<"Warning: No files found">>
Printed(msg) == \E i \in 1..Len(printed) : printed[i] = msg
Ended == pc \in {"done", "raised"}

\* C7 as claimed: whenever the libraries are unavailable the run reports the
\* missing-dependency message and produces no output, and the check comes
\* before any input file is enumerated, decoded or read.
C7_CheckedAtStartup ==
    (~libs /\ Ended) =>
        /\ Printed(ErrorMissingLibs)
        /\ out_writes = 0
        /\ opened = <<>>

\* C7 amended: with the libraries unavailable no workbook is created and no
\* output written; the check comes after the loop, so the message is printed
\* exactly by the runs that matched a file and read every matched file; the
\* run with no match prints only its warning and a run with an unreadable
\* file ends before the check.
C7_CheckedAfterLoop ==
    ~libs =>
        /\ out_writes = 0 /\ wb = NoneV
        /\ pc \notin {"render_summary", "render_detail", "save"}
        /\ Printed(ErrorMissingLibs) =>
              /\ pc = "done" /\ reml_files # {}
              /\ opened = sorted_files
              /\ \A f \in reml_files : fs[f] # Unreadable
        /\ (pc = "done" /\ reml_files # {}) => Printed(ErrorMissingLibs)
        /\ (pc = "done" /\ reml_files = {}) => printed = <<WarningNoFiles>>
        /\ pc = "raised" =>
              /\ ~Printed(ErrorMissingLibs)
              /\ \E f \in reml_files : fs[f] = Unreadable

\* C7 witness: without the libraries, a run that read two files ended with
\* the message and without output.
C7_Witness ==
    /\ ~libs /\ pc = "done" /\ Printed(ErrorMissingLibs)
    /\ Len(opened) >= 2 /\ out_writes = 0 /\ out_file = OldFile

\* C8: a pattern that matches no file ends the run normally with the warning,
\* no file read, no workbook, nothing written at the output path; output is
\* written only by runs that matched a file.
C8_EmptyMatch ==
    /\ (DOMAIN fs = {} /\ pc # "start") =>
          /\ pc = "done"
          /\ printed = <<WarningNoFiles>>
          /\ opened = <<>> /\ wb = NoneV
          /\ out_writes = 0 /\ out_file \in {NoneV, OldFile, Unwritable}
    /\ out_writes > 0 => DOMAIN fs # {}

\* C8 witness: the run on no file has ended, the libraries present and the
\* file at the output path untouched.
C8_Witness ==
    /\ DOMAIN fs = {} /\ pc = "done" /\ libs
    /\ out_file = OldFile /\ printed = <<WarningNoFiles>>

====
